---- MODULE Spec2Model ----
(***************************************************************************)
(* Update pipeline of the rljax algorithms QRDQN, SAC and TD3 and of the   *)
(* numeric kernels in rljax/util.py.                                       *)
(*                                                                         *)
(* Parameter trees are maps from leaf names to fixed-point numbers: an     *)
(* entry v stands for the real v / Scale.  The forward and backward passes *)
(* of the networks are the black box of the design: what they return       *)
(* (gradients, Q values, TD errors) is an input of the update, drawn from  *)
(* a small set.  `trace` records, for the most recent update() call, the   *)
(* object at call entry and then each call the handler made with the       *)
(* arguments it passed; `keys` records every key taken from self.rng and   *)
(* the consumer it was handed to; `writer` is the metrics writer passed    *)
(* to update(), with the scalars it has accepted.                          *)
(***************************************************************************)
EXTENDS Integers, Sequences, FiniteSets, TLC

VARIABLES algo, buffer, trace, keys, pc, kernel, writer

vars == <<algo, buffer, trace, keys, pc, kernel, writer>>

(* ------------------------------ bounds --------------------------------- *)
MaxAgent == 4       \* cap on agent_step
MaxLearn == 3       \* cap on learning_step
MaxInterval == 3    \* update_interval, update_interval_target, update_interval_policy in 1..MaxInterval
MaxStart == 1       \* start_steps in 0..MaxStart
TauDen == 2         \* tau is a multiple of 1/TauDen
MaxNoise == 3       \* a standard normal draw is a whole number in -MaxNoise..MaxNoise
MaxCells == 4       \* a td tensor has at most MaxCells entries
MaxTD == 3          \* a td entry is a multiple of 1/2 in -MaxTD/2..MaxTD/2
MaxQ == 2           \* a quantile value is a whole number in 0..MaxQ
MaxMean == 25       \* an actor network's last layer gives a multiple of 1/10 in -MaxMean/10..MaxMean/10

Scale == TauDen ^ (MaxLearn + 1)

Leaves == {"w", "b"}

Abs(x) == IF x < 0 THEN -x ELSE x

(* --------------------------- parameter trees --------------------------- *)
\* hk.transform(...).init(key, ...): a tree determined by the key (biases start at 0).
init_params(key) == [l \in Leaves |-> IF l = "w" THEN (key + 1) * Scale ELSE 0]

\* Gradients the backward pass may return (never zero in every leaf).
Grads == { [l \in Leaves |-> IF l = "w" THEN Scale ELSE -Scale],
           [l \in Leaves |-> IF l = "w" THEN -Scale ELSE Scale] }

\* The optimizer as (gradient, state) -> (update, new state); the state counts steps.
adam(grad, opt_state) ==
  [update |-> [l \in DOMAIN grad |-> -grad[l]], opt_state |-> opt_state + 1]

adam_scalar(grad, opt_state) ==
  [update |-> -grad, opt_state |-> opt_state + 1]

apply_updates(params, update) == [l \in DOMAIN params |-> params[l] + update[l]]

\* util.soft_update: (1 - tau) * t + tau * s in every leaf, tau = tau_n / TauDen.
soft_update_swapped(target_params, online_params, tau_n) ==
  [l \in DOMAIN target_params |->
     ((TauDen - tau_n) * online_params[l] + tau_n * target_params[l]) \div TauDen]

soft_update(target_params, online_params, tau_n) ==
  [l \in DOMAIN target_params |->
     ((TauDen - tau_n) * target_params[l] + tau_n * online_params[l]) \div TauDen]

(* ----------------------- base classes (rljax.algorithm.base) ----------- *)
\* OffPolicyActorCritic._update_target: the Polyak blend with the instance's tau.
update_target_soft(self, target, online) == soft_update(target, online, self.tau)

\* QLearning._update_target: the hard copy.
update_target_hard(target, online) == online

\* next(self.rng): the key stream hands out its current key and advances.
next_rng(f, consumer) ==
  [f EXCEPT !.self.rng = @ + 1,
            !.keys = Append(@, [key |-> f.self.rng, consumer |-> consumer])]

\* is_update(): learning has started and this agent step is an update step.
is_update(self) ==
  /\ self.agent_step >= self.start_steps
  /\ self.agent_step % self.update_interval = 0

\* Entry of update(): learning_step += 1 (first statement of each update()).
enter_update(self, buf, ks) ==
  [self |-> [self EXCEPT !.learning_step = @ + 1],
   buffer |-> buf,
   keys |-> ks,
   abs_td |-> 0,
   trace |-> << [fn |-> "update", self |-> self] >>]

\* buffer.update_priority(abs_td)
update_priority(f, abs_td) ==
  [f EXCEPT !.buffer = Append(@, abs_td),
            !.trace = Append(@, [fn |-> "update_priority", abs_td |-> abs_td])]

(* --------------------------------- TD3 --------------------------------- *)
TD3_init(cfg) ==
  [name |-> "TD3", agent_step |-> 0, learning_step |-> 0, rng |-> 2,
   use_per |-> cfg.use_per, start_steps |-> cfg.start_steps,
   update_interval |-> cfg.update_interval, tau |-> cfg.tau,
   params_critic |-> init_params(0), params_critic_target |-> init_params(0),
   opt_state_critic |-> 0,
   params_actor |-> init_params(1), params_actor_target |-> init_params(1),
   opt_state_actor |-> 0,
   update_interval_policy |-> cfg.update_interval_policy]

TD3_init_keys ==
  << [key |-> 0, consumer |-> "critic.init"], [key |-> 1, consumer |-> "actor.init"] >>

\* What the forward passes of one TD3 critic loss return.
TD3_QOutcomes ==
  { [target_q |-> 3, curr_q1 |-> 1, curr_q2 |-> 0],
    [target_q |-> 3, curr_q1 |-> 2, curr_q2 |-> 3] }

TD3_Inputs == [grad_critic : Grads, grad_actor : Grads, q : TD3_QOutcomes]

\* abs_td1, abs_td2 of _loss_critic.
TD3_abs_td(q) ==
  [abs_td1 |-> Abs(q.target_q - q.curr_q1), abs_td2 |-> Abs(q.target_q - q.curr_q2)]

\* Which of the two TD errors update() keeps: (abs_td1, _).
TD3_priority_of_second(td) == td.abs_td2

TD3_priority_of(td) == td.abs_td1

TD3_update_critic(f, in) ==
  LET self == f.self
      o == adam(in.grad_critic, self.opt_state_critic)
      call == [fn |-> "_update_critic",
               params_critic |-> self.params_critic,
               params_actor_target |-> self.params_actor_target,
               params_critic_target |-> self.params_critic_target,
               key |-> self.rng,
               q |-> in.q]
      g == next_rng(f, "TD3._update_critic")
  IN [g EXCEPT !.self.opt_state_critic = o.opt_state,
               !.self.params_critic = apply_updates(self.params_critic, o.update),
               !.abs_td = TD3_priority_of(TD3_abs_td(in.q)),
               !.trace = Append(@, call)]

\* self.params_critic_target = self._update_target(...), outside the policy branch.
TD3_update_critic_target_on_policy_step(f) ==
  LET self == f.self
      call == [fn |-> "_update_target", tree |-> "critic",
               target |-> self.params_critic_target, online |-> self.params_critic]
  IN IF self.learning_step % self.update_interval_policy = 0
     THEN [f EXCEPT !.self.params_critic_target =
                       update_target_soft(self, self.params_critic_target, self.params_critic),
                    !.trace = Append(@, call)]
     ELSE f

TD3_update_critic_target(f) ==
  LET self == f.self
      call == [fn |-> "_update_target", tree |-> "critic",
               target |-> self.params_critic_target, online |-> self.params_critic]
  IN [f EXCEPT !.self.params_critic_target =
                  update_target_soft(self, self.params_critic_target, self.params_critic),
               !.trace = Append(@, call)]

TD3_update_priority(f) ==
  IF f.self.use_per THEN update_priority(f, f.abs_td) ELSE f

\* learning_step % update_interval_policy == 0
TD3_is_policy_step_before_increment(self) ==
  (self.learning_step - 1) % self.update_interval_policy = 0

TD3_is_policy_step(self) ==
  self.learning_step % self.update_interval_policy = 0

TD3_update_actor(f, in) ==
  LET self == f.self
      o == adam(in.grad_actor, self.opt_state_actor)
      new_actor == apply_updates(self.params_actor, o.update)
      call == [fn |-> "_update_actor",
               params_actor |-> self.params_actor,
               params_critic |-> self.params_critic]
      blend == [fn |-> "_update_target", tree |-> "actor",
                target |-> self.params_actor_target, online |-> new_actor]
  IN IF TD3_is_policy_step(self)
     THEN [f EXCEPT !.self.opt_state_actor = o.opt_state,
                    !.self.params_actor = new_actor,
                    !.self.params_actor_target =
                       update_target_soft(self, self.params_actor_target, new_actor),
                    !.trace = @ \o << call, blend >>]
     ELSE f

\* update(writer=None)
TD3_update(self, buf, ks, in) ==
  TD3_update_actor(
    TD3_update_priority(
      TD3_update_critic_target(
        TD3_update_critic(enter_update(self, buf, ks), in))), in)

(* --------------------------------- SAC --------------------------------- *)
\* target_entropy = -float(action_space.shape[0]) for the one-dimensional action space.
SAC_target_entropy == 0 - 1

SAC_init(cfg) ==
  [name |-> "SAC", agent_step |-> 0, learning_step |-> 0, rng |-> 2,
   use_per |-> FALSE, start_steps |-> cfg.start_steps,
   update_interval |-> cfg.update_interval, tau |-> cfg.tau,
   params_critic |-> init_params(0), params_critic_target |-> init_params(0),
   opt_state_critic |-> 0,
   params_actor |-> init_params(1), opt_state_actor |-> 0,
   target_entropy |-> SAC_target_entropy,
   log_alpha |-> 0, opt_state_alpha |-> 0]

SAC_init_keys ==
  << [key |-> 0, consumer |-> "critic.init"], [key |-> 1, consumer |-> "actor.init"] >>

\* mean_log_pi is the auxiliary output of _loss_actor, in whole units.
SAC_Inputs == [grad_critic : Grads, grad_actor : Grads, mean_log_pi : {-2, 1}]

\* d/d log_alpha of -log_alpha * (target_entropy + mean_log_pi)
SAC_grad_alpha(self, mean_log_pi) == -(self.target_entropy + mean_log_pi) * Scale

SAC_update_critic(f, in) ==
  LET self == f.self
      o == adam(in.grad_critic, self.opt_state_critic)
      call == [fn |-> "_update_critic",
               params_critic |-> self.params_critic,
               params_critic_target |-> self.params_critic_target,
               params_actor |-> self.params_actor,
               log_alpha |-> self.log_alpha,
               key |-> self.rng]
      g == next_rng(f, "SAC._update_critic")
  IN [g EXCEPT !.self.opt_state_critic = o.opt_state,
               !.self.params_critic = apply_updates(self.params_critic, o.update),
               !.trace = Append(@, call)]

\* The key handed to _update_actor_and_alpha: rng=next(self.rng).
SAC_actor_key_reused(f) ==
  [frame |-> f, key |-> f.self.rng - 1]

SAC_actor_key(f) ==
  [frame |-> next_rng(f, "SAC._update_actor_and_alpha"), key |-> f.self.rng]

SAC_update_actor_and_alpha(f, in) ==
  LET self == f.self
      k == SAC_actor_key(f)
      oa == adam(in.grad_actor, self.opt_state_actor)
      ol == adam_scalar(SAC_grad_alpha(self, in.mean_log_pi), self.opt_state_alpha)
      actor == [fn |-> "_update_actor",
                params_actor |-> self.params_actor,
                params_critic |-> self.params_critic,
                log_alpha |-> self.log_alpha,
                key |-> k.key]
      alpha == [fn |-> "_update_alpha",
                log_alpha |-> self.log_alpha,
                mean_log_pi |-> in.mean_log_pi]
  IN [k.frame EXCEPT !.self.opt_state_actor = oa.opt_state,
                     !.self.params_actor = apply_updates(self.params_actor, oa.update),
                     !.self.opt_state_alpha = ol.opt_state,
                     !.self.log_alpha = self.log_alpha + ol.update,
                     !.trace = @ \o << actor, alpha >>]

SAC_update_target(f) ==
  LET self == f.self
      call == [fn |-> "_update_target", tree |-> "critic",
               target |-> self.params_critic_target, online |-> self.params_critic]
  IN [f EXCEPT !.self.params_critic_target =
                  update_target_soft(self, self.params_critic_target, self.params_critic),
               !.trace = Append(@, call)]

SAC_update_actor_first(self, buf, ks, in) ==
  SAC_update_target(
    SAC_update_critic(
      SAC_update_actor_and_alpha(enter_update(self, buf, ks), in), in))

SAC_update(self, buf, ks, in) ==
  SAC_update_target(
    SAC_update_actor_and_alpha(
      SAC_update_critic(enter_update(self, buf, ks), in), in))

(* -------------------------------- QRDQN -------------------------------- *)
QRDQN_init(cfg) ==
  [name |-> "QRDQN", agent_step |-> 0, learning_step |-> 0, rng |-> 1,
   use_per |-> cfg.use_per, start_steps |-> cfg.start_steps,
   update_interval |-> cfg.update_interval,
   update_interval_target |-> cfg.update_interval_target,
   params |-> init_params(0), params_target |-> init_params(0), opt_state |-> 0]

QRDQN_init_keys == << [key |-> 0, consumer |-> "quantile_net.init"] >>

\* The gradient and the per-sample abs_td that _update returns.
QRDQN_Inputs == [grad : Grads, abs_td : {1, 2}]

QRDQN_update_params(f, in) ==
  LET self == f.self
      o == adam(in.grad, self.opt_state)
      call == [fn |-> "_update", params |-> self.params,
               params_target |-> self.params_target, abs_td |-> in.abs_td]
  IN [f EXCEPT !.self.opt_state = o.opt_state,
               !.self.params = apply_updates(self.params, o.update),
               !.abs_td = in.abs_td,
               !.trace = Append(@, call)]

\* if self.use_per: self.buffer.update_priority(abs_td)
QRDQN_update_priority_always(f) == update_priority(f, f.abs_td)

QRDQN_update_priority(f) ==
  IF f.self.use_per THEN update_priority(f, f.abs_td) ELSE f

\* self.agent_step % self.update_interval_target == 0
QRDQN_is_target_step_by_learning_step(self) ==
  self.learning_step % self.update_interval_target = 0

QRDQN_is_target_step(self) ==
  self.agent_step % self.update_interval_target = 0

QRDQN_update_target(f) ==
  LET self == f.self
      call == [fn |-> "_update_target", tree |-> "quantile",
               target |-> self.params_target, online |-> self.params]
  IN IF QRDQN_is_target_step(self)
     THEN [f EXCEPT !.self.params_target =
                       update_target_hard(self.params_target, self.params),
                    !.trace = Append(@, call)]
     ELSE f

\* update(writer=None)
QRDQN_update(self, buf, ks, in) ==
  QRDQN_update_target(
    QRDQN_update_priority(
      QRDQN_update_params(enter_update(self, buf, ks), in)))

(* ------------------------------ the loop ------------------------------- *)
Configs ==
  [use_per : BOOLEAN, start_steps : 0..MaxStart, update_interval : 1..MaxInterval,
   tau : {1, TauDen}, update_interval_policy : 1..MaxInterval,
   update_interval_target : 1..MaxInterval]

NoKernel == [fn |-> "none"]

\* update(writer=None): no metrics writer.
NoWriter == [kind |-> "None", scalars |-> << >>]

Init ==
  /\ \E cfg \in Configs :
       \/ algo = TD3_init(cfg) /\ keys = TD3_init_keys
       \/ algo = SAC_init(cfg) /\ keys = SAC_init_keys
       \/ algo = QRDQN_init(cfg) /\ keys = QRDQN_init_keys
  /\ buffer = << >>
  /\ trace = << >>
  /\ pc = "step"
  /\ kernel = NoKernel
  /\ writer = NoWriter

\* step(): one environment step; the action comes from explore(), which takes a
\* key, or (explores = FALSE) from the action space directly.
Step ==
  /\ pc = "step"
  /\ algo.agent_step < MaxAgent
  /\ \E explores \in BOOLEAN :
       LET f == [self |-> [algo EXCEPT !.agent_step = @ + 1], keys |-> keys]
           g == IF explores /\ algo.name \in {"SAC", "TD3"}
                THEN next_rng(f, "explore") ELSE f
       IN algo' = g.self /\ keys' = g.keys
  /\ pc' = "is_update"
  /\ UNCHANGED <<buffer, trace, kernel, writer>>

Skip ==
  /\ pc = "is_update"
  /\ ~ is_update(algo)
  /\ pc' = "step"
  /\ UNCHANGED <<algo, buffer, trace, keys, kernel, writer>>

TD3Update ==
  /\ pc = "is_update"
  /\ algo.name = "TD3"
  /\ is_update(algo)
  /\ algo.learning_step < MaxLearn
  /\ \E in \in TD3_Inputs :
       LET f == TD3_update(algo, buffer, keys, in)
       IN algo' = f.self /\ buffer' = f.buffer /\ trace' = f.trace /\ keys' = f.keys
  /\ pc' = "step"
  /\ UNCHANGED <<kernel, writer>>

SACUpdate ==
  /\ pc = "is_update"
  /\ algo.name = "SAC"
  /\ is_update(algo)
  /\ algo.learning_step < MaxLearn
  /\ \E in \in SAC_Inputs :
       LET f == SAC_update(algo, buffer, keys, in)
       IN algo' = f.self /\ buffer' = f.buffer /\ trace' = f.trace /\ keys' = f.keys
  /\ pc' = "step"
  /\ UNCHANGED <<kernel, writer>>

QRDQNUpdate ==
  /\ pc = "is_update"
  /\ algo.name = "QRDQN"
  /\ is_update(algo)
  /\ algo.learning_step < MaxLearn
  /\ \E in \in QRDQN_Inputs :
       LET f == QRDQN_update(algo, buffer, keys, in)
       IN algo' = f.self /\ buffer' = f.buffer /\ trace' = f.trace /\ keys' = f.keys
  /\ pc' = "step"
  /\ UNCHANGED <<kernel, writer>>

Next == Step \/ Skip \/ TD3Update \/ SACUpdate \/ QRDQNUpdate

Spec == Init /\ [][Next]_vars

(* --------------------------- numeric kernels --------------------------- *)
\* Actions and noise scales are in tenths: 1.0 is action_max.
action_max == 10
std_target == 2
clip_noise == 5

\* jnp.clip
clip(v, lo, hi) == IF v < lo THEN lo ELSE IF v > hi THEN hi ELSE v

\* jax.random.normal(key, x.shape): the draw the key determines, in whole units.
normal(key) == key - MaxNoise

NoiseKeys == 0..(2 * MaxNoise)

\* util.add_noise(x, key, std, x_min, x_max)
add_noise(x, key, std, x_min, x_max) == clip(x + normal(key) * std, x_min, x_max)

\* TD3._loss_critic: next_action = add_noise(next_action, key, self.std_target,
\* -1.0, 1.0, -self.clip_noise, self.clip_noise).  util.add_noise has the five
\* parameters above: nothing in it receives or uses the two clip_noise arguments.
TD3_next_action(actor_out, key) ==
  add_noise(actor_out, key, std_target, -action_max, action_max)

\* TD values and kappa are in halves; a Huber value is in eighths.
kappa == 2

RECURSIVE Sum(_, _)
Sum(f, n) == IF n = 0 THEN 0 ELSE f[n] + Sum(f, n - 1)

\* util._huber_loss
huber_loss_squared(td, k) == td * td

huber_loss(td, k) ==
  LET abs_td == Abs(td)
  IN IF abs_td <= k THEN td * td ELSE k * (2 * abs_td - k)

\* QRDQN.cum_p_prime: the midpoints (2i - 1) / (2N), as numerators over 2N.
cum_p_prime(N) == [i \in 1..N |-> 2 * i - 1]

\* util.calculate_quantile_huber_loss(td, tau, weight, kappa), td of shape
\* (B, N, N): the loss is num / den.
calculate_quantile_huber_loss(td, tau, weight, k) ==
  LET B == Len(td)
      N == Len(tau)
      element_wise_loss(b, i, j) ==
        huber_loss(td[b][i][j], k) * Abs(tau[i] - (IF td[b][i][j] < 0 THEN 2 * N ELSE 0))
      batch_loss(b) ==
        Sum([i \in 1..N |-> Sum([j \in 1..N |-> element_wise_loss(b, i, j)], N)], N)
  IN [num |-> Sum([b \in 1..B |-> batch_loss(b) * weight[b]], B),
      den |-> 8 * k * N * N * B]

NoAlgo == [name |-> "none"]

KernelTrees == [Leaves -> {-Scale, 0, 2 * Scale}]

\* soft_update applied to a target tree again and again, as an update loop does.
InitSoftUpdate ==
  /\ algo = NoAlgo /\ buffer = << >> /\ trace = << >> /\ keys = << >> /\ pc = "kernel"
  /\ writer = NoWriter
  /\ \E t \in KernelTrees, o \in KernelTrees, tau_n \in 0..TauDen :
       kernel = [fn |-> "soft_update", target_params |-> t, online_params |-> o,
                 tau |-> tau_n, n |-> 0, out |-> t]

SoftUpdateCall ==
  /\ kernel.fn = "soft_update"
  /\ kernel.n < MaxLearn
  /\ kernel' = [kernel EXCEPT !.n = @ + 1,
                              !.target_params = kernel.out,
                              !.out = soft_update(kernel.out, kernel.online_params, kernel.tau)]
  /\ UNCHANGED <<algo, buffer, trace, keys, pc, writer>>

SpecSoftUpdate == InitSoftUpdate /\ [][SoftUpdateCall]_vars

\* The next action of the TD3 critic loss for one actor output and one key.
InitAddNoise ==
  /\ algo = NoAlgo /\ buffer = << >> /\ trace = << >> /\ keys = << >> /\ pc = "kernel"
  /\ writer = NoWriter
  /\ \E x \in (-action_max)..action_max, key \in NoiseKeys :
       kernel = [fn |-> "add_noise", x |-> x, key |-> key, n |-> 0, out |-> 0]

AddNoiseCall ==
  /\ kernel.fn = "add_noise"
  /\ kernel.n = 0
  /\ kernel' = [kernel EXCEPT !.n = 1, !.out = TD3_next_action(kernel.x, kernel.key)]
  /\ UNCHANGED <<algo, buffer, trace, keys, pc, writer>>

SpecAddNoise == InitAddNoise /\ [][AddNoiseCall]_vars

TDShapes == { sh \in (1..MaxCells) \X (1..MaxCells) : sh[1] * sh[2] * sh[2] <= MaxCells }

\* The quantile Huber loss of one td tensor with QRDQN's cum_p_prime.
InitHuber ==
  /\ algo = NoAlgo /\ buffer = << >> /\ trace = << >> /\ keys = << >> /\ pc = "kernel"
  /\ writer = NoWriter
  /\ \E sh \in TDShapes :
       \E td \in [1..sh[1] -> [1..sh[2] -> [1..sh[2] -> (-MaxTD)..MaxTD]]],
          w \in {[b \in 1..sh[1] |-> 1], [b \in 1..sh[1] |-> b]} :
         kernel = [fn |-> "calculate_quantile_huber_loss", td |-> td,
                   tau |-> cum_p_prime(sh[2]), weight |-> w, n |-> 0,
                   out |-> [num |-> 0, den |-> 1]]

HuberCall ==
  /\ kernel.fn = "calculate_quantile_huber_loss"
  /\ kernel.n = 0
  /\ kernel' = [kernel EXCEPT
                  !.n = 1,
                  !.out = calculate_quantile_huber_loss(kernel.td, kernel.tau, kernel.weight, kappa)]
  /\ UNCHANGED <<algo, buffer, trace, keys, pc, writer>>

SpecHuber == InitHuber /\ [][HuberCall]_vars

(* ================= QRDQN next-state quantiles (pure) ==================== *)
\* quantile_net.apply(params, state) for one state of the batch: a value for
\* each quantile index and each action.
QuantileIdx == 1..2
ActionIdx == 0..1
QuantileOutputs == [QuantileIdx -> [ActionIdx -> 0..MaxQ]]

\* quantile_s.mean(axis=1), in units of 1 / num_quantiles.
quantile_mean(quantile_s) ==
  [a \in ActionIdx |->
     Sum([i \in QuantileIdx |-> quantile_s[i][a]], Cardinality(QuantileIdx))]

\* jnp.argmax: the first index that holds the maximum.
argmax(q_s) ==
  CHOOSE a \in DOMAIN q_s :
    /\ \A b \in DOMAIN q_s : q_s[b] <= q_s[a]
    /\ \A b \in DOMAIN q_s : b < a => q_s[b] < q_s[a]

QRDQN_forward_last_quantile(quantile_s) == argmax(quantile_s[Cardinality(QuantileIdx)])

\* QRDQN._forward on the network's output for one state.
QRDQN_forward(quantile_s) == argmax(quantile_mean(quantile_s))

get_quantile_at_action(quantile_s, action) ==
  [i \in QuantileIdx |-> quantile_s[i][action]]

\* jnp.max(quantile_s, axis=2, keepdims=True)
max_over_actions(quantile_s) ==
  [i \in QuantileIdx |->
     CHOOSE v \in {quantile_s[i][a] : a \in ActionIdx} :
       \A a \in ActionIdx : quantile_s[i][a] <= v]

QRDQN_next_quantile_target_greedy(online, target, double_q) ==
  IF double_q
  THEN [next_quantile |-> get_quantile_at_action(target, QRDQN_forward(target)),
        applied |-> {"params", "params_target"}]
  ELSE [next_quantile |-> max_over_actions(target), applied |-> {"params_target"}]

\* The next-state quantiles of QRDQN._loss.  online and target are what the
\* network gives for the next state under params and params_target; applied
\* names the parameter trees the branch evaluates the network with.
QRDQN_next_quantile(online, target, double_q) ==
  IF double_q
  THEN [next_quantile |-> get_quantile_at_action(target, QRDQN_forward(online)),
        applied |-> {"params", "params_target"}]
  ELSE [next_quantile |-> max_over_actions(target), applied |-> {"params_target"}]

\* The next-state quantiles of one pair of network outputs, computed once
\* with double_q enabled and once with it disabled.
InitNextQuantile ==
  /\ algo = NoAlgo /\ buffer = << >> /\ trace = << >> /\ keys = << >> /\ pc = "kernel"
  /\ writer = NoWriter
  /\ \E online \in QuantileOutputs, target \in QuantileOutputs :
       kernel = [fn |-> "next_quantile", online |-> online, target |-> target,
                 done |-> {},
                 out |-> [d \in BOOLEAN |->
                            [next_quantile |-> [i \in QuantileIdx |-> 0], applied |-> {}]]]

NextQuantileCall ==
  /\ kernel.fn = "next_quantile"
  /\ \E double_q \in BOOLEAN \ kernel.done :
       kernel' = [kernel EXCEPT
                    !.done = @ \cup {double_q},
                    !.out[double_q] = QRDQN_next_quantile(kernel.online, kernel.target, double_q)]
  /\ UNCHANGED <<algo, buffer, trace, keys, pc, writer>>

SpecNextQuantile == InitNextQuantile /\ [][NextQuantileCall]_vars

(* ============================ construction ============================== *)
\* Learning rates a constructor may be called with, in units of the
\* default: negative, zero, positive.
LearningRates == {-1, 0, 1}

\* Values passed as loss_type.
LossTypes == {"l2", "huber", "l1"}

\* optix.adam(lr): the optimizer keeps the learning rate it was given.
optix_adam(lr) == [lr |-> lr]

\* TD3.__init__: the object it leaves behind.
TD3_new(args) ==
  [opt_critic |-> optix_adam(args.lr_critic), opt_actor |-> optix_adam(args.lr_actor)]
    @@ TD3_init(args.cfg)

\* SAC.__init__
SAC_new(args) ==
  [opt_critic |-> optix_adam(args.lr_critic), opt_actor |-> optix_adam(args.lr_actor),
   opt_alpha |-> optix_adam(args.lr_alpha)]
    @@ SAC_init(args.cfg)

\* assert loss_type in ["l2", "huber"]
QRDQN_loss_type_ok(args) == args.loss_type \in {"l2", "huber"}

\* QRDQN.__init__ past the assertion
QRDQN_new(args) ==
  [opt |-> optix_adam(args.lr), loss_type |-> args.loss_type] @@ QRDQN_init(args.cfg)

\* A constructor is about to be called with the arguments in kernel.
InitConstruct ==
  /\ algo = NoAlgo /\ buffer = << >> /\ trace = << >> /\ keys = << >> /\ pc = "new"
  /\ writer = NoWriter
  /\ \E cfg \in Configs :
       \/ \E la \in LearningRates, lc \in LearningRates :
            kernel = [fn |-> "__init__", name |-> "TD3", cfg |-> cfg,
                      lr_actor |-> la, lr_critic |-> lc]
       \/ \E la \in LearningRates, lc \in LearningRates, ll \in LearningRates :
            kernel = [fn |-> "__init__", name |-> "SAC", cfg |-> cfg,
                      lr_actor |-> la, lr_critic |-> lc, lr_alpha |-> ll]
       \/ \E lr \in LearningRates, lt \in LossTypes :
            kernel = [fn |-> "__init__", name |-> "QRDQN", cfg |-> cfg,
                      lr |-> lr, loss_type |-> lt]

TD3Construct ==
  /\ pc = "new" /\ kernel.fn = "__init__" /\ kernel.name = "TD3"
  /\ algo' = TD3_new(kernel) /\ keys' = TD3_init_keys
  /\ pc' = "step"
  /\ UNCHANGED <<buffer, trace, kernel, writer>>

SACConstruct ==
  /\ pc = "new" /\ kernel.fn = "__init__" /\ kernel.name = "SAC"
  /\ algo' = SAC_new(kernel) /\ keys' = SAC_init_keys
  /\ pc' = "step"
  /\ UNCHANGED <<buffer, trace, kernel, writer>>

\* The failed assertion leaves the constructor before anything is built.
QRDQNConstruct ==
  /\ pc = "new" /\ kernel.fn = "__init__" /\ kernel.name = "QRDQN"
  /\ IF QRDQN_loss_type_ok(kernel)
     THEN algo' = QRDQN_new(kernel) /\ keys' = QRDQN_init_keys /\ pc' = "step"
     ELSE pc' = "raised" /\ UNCHANGED <<algo, keys>>
  /\ UNCHANGED <<buffer, trace, kernel, writer>>

NextConstruct == TD3Construct \/ SACConstruct \/ QRDQNConstruct

SpecConstruct == InitConstruct /\ [][NextConstruct]_vars

(* ============================ metrics writer ============================ *)
\* update() logs when learning_step is a multiple of this.
log_interval == 1000

\* The writer passed to update(): None, one whose add_scalar works, or one
\* whose add_scalar raises.
Writers == {[kind |-> k, scalars |-> << >>] : k \in {"None", "ok", "failing"}}

\* r is an update() call in progress: the frame of its effects so far, the
\* writer, and whether an exception is propagating out of the call.
\* writer.add_scalar(tag, loss, self.learning_step)
add_scalar(r, tag) ==
  IF r.raised THEN r
  ELSE IF r.writer.kind = "failing" THEN [r EXCEPT !.raised = TRUE]
  ELSE [r EXCEPT !.writer.scalars =
                   Append(@, [tag |-> tag, step |-> r.frame.self.learning_step])]

\* if writer and self.learning_step % 1000 == 0: ...
QRDQN_write(f, w) ==
  LET r == [frame |-> f, writer |-> w, raised |-> FALSE]
  IN IF w.kind # "None" /\ f.self.learning_step % log_interval = 0
     THEN add_scalar(r, "loss/quantile")
     ELSE r

\* QRDQN.update(writer)
QRDQN_update_writer(self, buf, ks, in, w) == QRDQN_write(QRDQN_update(self, buf, ks, in), w)

\* The two add_scalar calls at the end of TD3's policy branch.
TD3_write(f, w) ==
  LET r == [frame |-> f, writer |-> w, raised |-> FALSE]
  IN IF TD3_is_policy_step(f.self) /\ w.kind # "None"
          /\ f.self.learning_step % log_interval = 0
     THEN add_scalar(add_scalar(r, "loss/critic"), "loss/actor")
     ELSE r

\* TD3.update(writer)
TD3_update_writer(self, buf, ks, in, w) == TD3_write(TD3_update(self, buf, ks, in), w)

\* A training run that updates after every step and hands update() a writer.
\* The run is a thousand updates long; the log of key uses is not kept here.
MetricsConfigs == {cfg \in Configs : cfg.update_interval = 1 /\ cfg.start_steps = 0}

\* The run is followed along one batch per update.
TD3_MetricsInputs == {in \in TD3_Inputs : in.grad_critic = in.grad_actor /\ in.grad_critic["w"] > 0
                                          /\ in.q = CHOOSE q \in TD3_QOutcomes : TRUE}
QRDQN_MetricsInputs == {in \in QRDQN_Inputs : in.grad["w"] > 0 /\ in.abs_td = 1}

InitMetrics ==
  /\ \E cfg \in MetricsConfigs : algo \in {TD3_init(cfg), QRDQN_init(cfg)}
  /\ writer \in Writers
  /\ buffer = << >> /\ trace = << >> /\ keys = << >>
  /\ pc = "step"
  /\ kernel = NoKernel

MetricsStep ==
  /\ pc = "step"
  /\ algo.learning_step <= log_interval
  /\ algo' = [algo EXCEPT !.agent_step = @ + 1]
  /\ pc' = "is_update"
  /\ UNCHANGED <<buffer, trace, keys, kernel, writer>>

\* An exception that leaves update() reaches the caller after the
\* assignments made before the failing statement.
TD3UpdateWriter ==
  /\ pc = "is_update" /\ algo.name = "TD3" /\ is_update(algo)
  /\ \E in \in TD3_MetricsInputs :
       LET r == TD3_update_writer(algo, buffer, << >>, in, writer)
       IN /\ algo' = r.frame.self /\ buffer' = r.frame.buffer /\ trace' = r.frame.trace
          /\ writer' = r.writer
          /\ pc' = IF r.raised THEN "raised" ELSE "step"
  /\ UNCHANGED <<keys, kernel>>

QRDQNUpdateWriter ==
  /\ pc = "is_update" /\ algo.name = "QRDQN" /\ is_update(algo)
  /\ \E in \in QRDQN_MetricsInputs :
       LET r == QRDQN_update_writer(algo, buffer, << >>, in, writer)
       IN /\ algo' = r.frame.self /\ buffer' = r.frame.buffer /\ trace' = r.frame.trace
          /\ writer' = r.writer
          /\ pc' = IF r.raised THEN "raised" ELSE "step"
  /\ UNCHANGED <<keys, kernel>>

NextMetrics == MetricsStep \/ TD3UpdateWriter \/ QRDQNUpdateWriter

SpecMetrics == InitMetrics /\ [][NextMetrics]_vars

(* ============================ select_action ============================= *)
\* 10 * tanh(x / 10) rounded to a whole number, for x = 1, 2, ...; from 1.9
\* on the value rounds to 1.0.
tanh_tenths == <<1, 2, 3, 4, 5, 5, 6, 7, 7, 8, 8, 8, 9, 9, 9, 9, 9, 9>>

\* jnp.tanh, argument and value in tenths.
tanh(x) ==
  LET a == Abs(x)
      t == IF a = 0 THEN 0 ELSE IF a <= Len(tanh_tenths) THEN tanh_tenths[a] ELSE action_max
  IN IF x < 0 THEN -t ELSE t

\* What the last linear layer of an actor network can give, in tenths.
ActorOutputs == (-MaxMean)..MaxMean

\* The deterministic actor network: tanh of its last linear layer.
DeterministicPolicy(a) == tanh(a)

SAC_select_action_unsquashed(mean) == mean

\* SAC._select_action: tanh of the policy mean.
SAC_select_action(mean) == tanh(mean)

\* TD3._select_action: the actor's output as it is.
TD3_select_action(actor_out) == actor_out

\* QLearning.select_action: the greedy action of _forward.
QRDQN_select_action(quantile_s) == QRDQN_forward(quantile_s)

\* select_action for one state: net is what the network gives for that state
\* under the current parameters.
InitSelectAction ==
  /\ algo = NoAlgo /\ buffer = << >> /\ trace = << >> /\ keys = << >> /\ pc = "kernel"
  /\ writer = NoWriter
  /\ \/ \E mean \in ActorOutputs :
          kernel = [fn |-> "select_action", name |-> "SAC", net |-> mean,
                    n |-> 0, out |-> 0, prev |-> 0]
     \/ \E a \in ActorOutputs :
          kernel = [fn |-> "select_action", name |-> "TD3", net |-> DeterministicPolicy(a),
                    n |-> 0, out |-> 0, prev |-> 0]
     \/ \E quantile_s \in QuantileOutputs :
          kernel = [fn |-> "select_action", name |-> "QRDQN", net |-> quantile_s,
                    n |-> 0, out |-> 0, prev |-> 0]

\* Two calls in a row with the same parameters and state.
SelectActionCall ==
  /\ kernel.fn = "select_action"
  /\ kernel.n < 2
  /\ kernel' = [kernel EXCEPT
                  !.n = @ + 1,
                  !.prev = kernel.out,
                  !.out = CASE kernel.name = "SAC" -> SAC_select_action(kernel.net)
                            [] kernel.name = "TD3" -> TD3_select_action(kernel.net)
                            [] kernel.name = "QRDQN" -> QRDQN_select_action(kernel.net)]
  /\ UNCHANGED <<algo, buffer, trace, keys, pc, writer>>

SpecSelectAction == InitSelectAction /\ [][SelectActionCall]_vars

(* ============================= checkpoints ============================== *)
\* Parameter trees a checkpoint file can hold.
Checkpoints ==
  { [l \in Leaves |-> 0], [l \in Leaves |-> IF l = "w" THEN 3 * Scale ELSE -Scale] }

QRDQN_load_params_online_only(self, tree) == [self EXCEPT !.params = tree]

\* QRDQN.load_params: self.params = self.params_target = load_params(...)
QRDQN_load_params(self, tree) == [self EXCEPT !.params = tree, !.params_target = tree]

\* TD3.load_params
TD3_load_params(self, critic, actor) ==
  [self EXCEPT !.params_critic = critic, !.params_critic_target = critic,
               !.params_actor = actor, !.params_actor_target = actor]

\* A training run of TD3 or QRDQN without prioritized replay that starts
\* updating at once and may load a checkpoint between steps.
CheckpointConfigs == {cfg \in Configs : ~ cfg.use_per /\ cfg.start_steps = 0}

InitCheckpoint ==
  /\ \E cfg \in CheckpointConfigs :
       \/ algo = TD3_init(cfg) /\ keys = TD3_init_keys
       \/ algo = QRDQN_init(cfg) /\ keys = QRDQN_init_keys
  /\ buffer = << >>
  /\ trace = << >>
  /\ pc = "step"
  /\ kernel = NoKernel
  /\ writer = NoWriter

QRDQNLoad ==
  /\ pc = "step" /\ algo.name = "QRDQN"
  /\ \E tree \in Checkpoints :
       /\ algo' = QRDQN_load_params(algo, tree)
       /\ trace' = << [fn |-> "load_params", self |-> algo, params |-> tree] >>
  /\ UNCHANGED <<buffer, keys, pc, kernel, writer>>

TD3Load ==
  /\ pc = "step" /\ algo.name = "TD3"
  /\ \E critic \in Checkpoints, actor \in Checkpoints :
       /\ algo' = TD3_load_params(algo, critic, actor)
       /\ trace' = << [fn |-> "load_params", self |-> algo,
                       params_critic |-> critic, params_actor |-> actor] >>
  /\ UNCHANGED <<buffer, keys, pc, kernel, writer>>

NextCheckpoint == Step \/ Skip \/ TD3Update \/ QRDQNUpdate \/ QRDQNLoad \/ TD3Load

SpecCheckpoint == InitCheckpoint /\ [][NextCheckpoint]_vars

(* ======================= properties of the updates ===================== *)
\* The object as it was when the most recent update() call was entered.
Pre == trace[1].self

\* The calls of the most recent update() whose name is in fns, in call order.
Calls(fns) == SelectSeq(trace, LAMBDA e : e.fn \in fns)

\* new is the Polyak blend of old towards online with weight tau_n / TauDen.
IsBlend(new, old, online, tau_n) ==
  \A l \in Leaves : TauDen * new[l] = (TauDen - tau_n) * old[l] + tau_n * online[l]

\* C1: TD3 delayed policy update.  An update() whose incremented learning_step
\* is not a multiple of update_interval_policy leaves params_actor,
\* opt_state_actor and params_actor_target as they were and makes no actor
\* call; one whose learning_step is a multiple ends with the actor gradient
\* step followed by the actor-target blend of the new actor.  Hence the actor
\* has taken learning_step \div K steps, and none before the K-th update.
C1_DelayedPolicyUpdate ==
  algo.name = "TD3" =>
    LET K == algo.update_interval_policy
        n == Len(trace)
    IN /\ algo.opt_state_actor = algo.learning_step \div K
       /\ algo.learning_step < K => algo.params_actor = init_params(1)
       /\ trace # << >> =>
            /\ algo.learning_step = Pre.learning_step + 1
            /\ IF algo.learning_step % K # 0
               THEN /\ algo.params_actor = Pre.params_actor
                    /\ algo.opt_state_actor = Pre.opt_state_actor
                    /\ algo.params_actor_target = Pre.params_actor_target
                    /\ Calls({"_update_actor"}) = << >>
                    /\ \A i \in 1..n : trace[i].fn = "_update_target" => trace[i].tree = "critic"
               ELSE /\ trace[n - 1].fn = "_update_actor"
                    /\ trace[n - 1].params_actor = Pre.params_actor
                    /\ trace[n].fn = "_update_target" /\ trace[n].tree = "actor"
                    /\ trace[n].target = Pre.params_actor_target
                    /\ trace[n].online = algo.params_actor
                    /\ algo.opt_state_actor = Pre.opt_state_actor + 1
                    /\ algo.params_actor # Pre.params_actor
                    /\ IsBlend(algo.params_actor_target, Pre.params_actor_target,
                               algo.params_actor, algo.tau)

\* The K-th update (K >= 2) has just changed an actor that the K-1 updates
\* before it left at its initial value.
C1_Witness ==
  /\ algo.name = "TD3" /\ algo.update_interval_policy >= 2
  /\ algo.learning_step = algo.update_interval_policy
  /\ trace # << >>
  /\ Pre.params_actor = init_params(1)
  /\ algo.params_actor # init_params(1)

\* C2: QRDQN target synchronization.  In a run of the training loop, every
\* agent step at or after start_steps that is a multiple of
\* update_interval_target has a hard copy performed at it, so that once the
\* loop has finished such a step params_target equals params.
C2_TargetSyncEveryInterval ==
  ( /\ algo.name = "QRDQN" /\ pc = "step"
    /\ algo.agent_step > 0
    /\ algo.agent_step >= algo.start_steps
    /\ algo.agent_step % algo.update_interval_target = 0 )
  => algo.params_target = algo.params

\* C3: SAC update ordering.  Every update() makes exactly three gradient
\* steps, critic then actor then temperature, one per optimizer, and the
\* critic step is passed the actor parameters, the log-temperature and the
\* target-critic parameters the object held when update() was entered.
C3_SACUpdateOrder ==
  (algo.name = "SAC" /\ trace # << >>) =>
    LET steps == Calls({"_update_critic", "_update_actor", "_update_alpha"})
    IN /\ [i \in 1..Len(steps) |-> steps[i].fn]
            = << "_update_critic", "_update_actor", "_update_alpha" >>
       /\ steps[1].params_actor = Pre.params_actor
       /\ steps[1].log_alpha = Pre.log_alpha
       /\ steps[1].params_critic_target = Pre.params_critic_target
       /\ steps[1].params_critic = Pre.params_critic
       /\ algo.opt_state_critic = Pre.opt_state_critic + 1
       /\ algo.opt_state_actor = Pre.opt_state_actor + 1
       /\ algo.opt_state_alpha = Pre.opt_state_alpha + 1

\* An update() that changed the actor, the temperature and the target critic,
\* all of which the critic step read in their old state.
C3_Witness ==
  /\ algo.name = "SAC" /\ trace # << >>
  /\ algo.learning_step >= 2
  /\ algo.params_actor # Pre.params_actor
  /\ algo.log_alpha # Pre.log_alpha
  /\ algo.params_critic_target # Pre.params_critic_target
  /\ trace[2].fn = "_update_critic"
  /\ trace[2].params_actor = Pre.params_actor

\* C4: target critic Polyak blend on every learning step.  Every update() of
\* SAC and of TD3, policy step or not, makes exactly one critic-target blend
\* and leaves params_critic_target = (1 - tau) * old target + tau * critic,
\* the critic being the one its own critic step produced; a SAC object has no
\* params_actor_target.
C4_TargetCriticBlendEveryStep ==
  /\ algo.name = "SAC" => "params_actor_target" \notin DOMAIN algo
  /\ (algo.name \in {"SAC", "TD3"} /\ trace # << >>) =>
       LET blends == SelectSeq(trace, LAMBDA e : e.fn = "_update_target" /\ e.tree = "critic")
       IN /\ Len(blends) = 1
          /\ blends[1].target = Pre.params_critic_target
          /\ blends[1].online = algo.params_critic
          /\ algo.params_critic # Pre.params_critic
          /\ IsBlend(algo.params_critic_target, Pre.params_critic_target,
                     algo.params_critic, algo.tau)

\* A TD3 update that is not a policy step moved the target critic strictly
\* between its old value and the new critic.
C4_Witness ==
  /\ algo.name = "TD3" /\ trace # << >>
  /\ algo.learning_step % algo.update_interval_policy # 0
  /\ algo.tau = 1
  /\ algo.params_critic_target # Pre.params_critic_target
  /\ algo.params_critic_target # algo.params_critic

\* C7: QRDQN priority feedback.  With use_per every update() reports the
\* abs_td its own _update returned, once, after the gradient step, so the
\* buffer holds one report per learning step; without use_per no update()
\* ever reports.
C7_QRDQNPriorityFeedback ==
  algo.name = "QRDQN" =>
    LET reports == Calls({"update_priority"})
    IN IF algo.use_per
       THEN /\ Len(buffer) = algo.learning_step
            /\ trace # << >> =>
                 /\ trace[2].fn = "_update"
                 /\ trace[3].fn = "update_priority"
                 /\ Len(reports) = 1
                 /\ reports[1].abs_td = trace[2].abs_td
                 /\ buffer[Len(buffer)] = trace[2].abs_td
                 /\ algo.opt_state = Pre.opt_state + 1
       ELSE /\ buffer = << >>
            /\ reports = << >>

\* Two updates with prioritized replay have reported two different abs_td.
C7_Witness ==
  /\ algo.name = "QRDQN" /\ algo.use_per
  /\ Len(buffer) = 2
  /\ buffer[1] # buffer[2]
  /\ buffer[2] = trace[2].abs_td

\* C8: TD3 priority feedback uses only the first critic.  With use_per the
\* value an update() reports is |target_q - curr_q1| of its sampled batch,
\* whatever curr_q2 is.
C8_TD3PriorityFirstCritic ==
  (algo.name = "TD3" /\ trace # << >>) =>
    LET reports == Calls({"update_priority"})
    IN IF algo.use_per
       THEN /\ trace[2].fn = "_update_critic"
            /\ Len(reports) = 1
            /\ reports[1].abs_td = Abs(trace[2].q.target_q - trace[2].q.curr_q1)
            /\ buffer[Len(buffer)] = reports[1].abs_td
            /\ Len(buffer) = algo.learning_step
       ELSE reports = << >> /\ buffer = << >>

\* A report made when the two critics' TD errors differ.
C8_Witness ==
  /\ algo.name = "TD3" /\ algo.use_per /\ trace # << >>
  /\ Abs(trace[2].q.target_q - trace[2].q.curr_q2)
       # Abs(trace[2].q.target_q - trace[2].q.curr_q1)
  /\ buffer[Len(buffer)] = Abs(trace[2].q.target_q - trace[2].q.curr_q1)

\* C9: random keys are never reused.  On a SAC or TD3 instance the stream has
\* advanced once per key handed out, no key was handed out twice, every key an
\* update() passed on was drawn for that call alone, and the critic step and
\* the actor step of one SAC update hold different keys.
C9_KeysNeverReused ==
  algo.name \in {"SAC", "TD3"} =>
    LET used == Calls({"_update_critic", "_update_actor"})
        keyed == SelectSeq(used, LAMBDA e : "key" \in DOMAIN e)
    IN /\ algo.rng = Len(keys)
       /\ \A i, j \in 1..Len(keys) : i # j => keys[i].key # keys[j].key
       /\ \A i, j \in 1..Len(keyed) : i # j => keyed[i].key # keyed[j].key
       /\ \A i \in 1..Len(keyed) :
            \E j \in 1..Len(keys) :
              /\ keys[j].key = keyed[i].key
              /\ keys[j].consumer \notin {"explore", "critic.init", "actor.init"}
       /\ Len(keyed) = IF trace = << >> THEN 0 ELSE IF algo.name = "SAC" THEN 2 ELSE 1

\* Two SAC updates with explore calls around them: at least seven keys drawn.
C9_Witness ==
  /\ algo.name = "SAC" /\ algo.learning_step = 2
  /\ \E i \in 1..Len(keys) : keys[i].consumer = "explore"
  /\ Len(keys) >= 7
  /\ Len(Calls({"_update_critic", "_update_actor"})) = 2

\* C5: soft_update endpoints.  With tau = 1 the result equals the online tree
\* in every entry, with tau = 0 it equals the target tree, and for any tau each
\* entry is (1 - tau) * target entry + tau * online entry.
C5_SoftUpdateEndpoints ==
  (kernel.fn = "soft_update" /\ kernel.n > 0) =>
    /\ kernel.tau = TauDen => kernel.out = kernel.online_params
    /\ kernel.tau = 0 => kernel.out = kernel.target_params
    /\ DOMAIN kernel.out = DOMAIN kernel.target_params
    /\ \A l \in Leaves :
         TauDen * kernel.out[l]
           = (TauDen - kernel.tau) * kernel.target_params[l] + kernel.tau * kernel.online_params[l]

\* tau = 1 replaced a target that differed from the online tree in both leaves.
C5_Witness ==
  /\ kernel.fn = "soft_update" /\ kernel.n = 1
  /\ kernel.tau = TauDen
  /\ \A l \in Leaves : kernel.target_params[l] # kernel.online_params[l]
  /\ kernel.out = kernel.online_params

\* C6: TD3 target-policy smoothing.  For every noise draw the next action of
\* the critic loss lies in [-1, 1] and differs from the target-actor output by
\* at most clip_noise.
C6_SmoothingNoiseClipped ==
  (kernel.fn = "add_noise" /\ kernel.n = 1) =>
    /\ -action_max <= kernel.out /\ kernel.out <= action_max
    /\ Abs(kernel.out - kernel.x) <= clip_noise

\* C10 as stated: with one quantile, cum_p_prime = [0.5], unit weights and
\* kappa = 1, the quantile Huber loss equals the batch mean of the standard
\* Huber loss (0.5 * td^2 where |td| <= 1, |td| - 0.5 otherwise).
HuberCase ==
  /\ kernel.fn = "calculate_quantile_huber_loss" /\ kernel.n = 1
  /\ Len(kernel.tau) = 1
  /\ \A b \in 1..Len(kernel.td) : kernel.weight[b] = 1

\* Sum over the batch of the standard Huber loss, in eighths.
StandardHuberSum ==
  Sum([b \in 1..Len(kernel.td) |->
         LET td == kernel.td[b][1][1]
         IN IF Abs(td) <= 2 THEN td * td ELSE 4 * Abs(td) - 4], Len(kernel.td))

C10_EqualsStandardHuber ==
  HuberCase =>
    kernel.out.num * (8 * Len(kernel.td)) = StandardHuberSum * kernel.out.den

\* C10 as amended: in that case the quantile Huber loss is one half of the
\* batch mean of the standard Huber loss.
C10_HalfStandardHuber ==
  HuberCase =>
    2 * kernel.out.num * (8 * Len(kernel.td)) = StandardHuberSum * kernel.out.den

\* A batch of two with one TD value in the quadratic and one in the linear range.
C10_Witness ==
  /\ HuberCase
  /\ Len(kernel.td) = 2
  /\ kernel.td[1][1][1] = -1
  /\ kernel.td[2][1][1] = 3
  /\ kernel.out.num = 9

(* ================ properties of the next-state quantiles ================ *)
\* Sum over the quantile axis of a network output at one action.
QSum(quantile_s, a) == Sum([i \in QuantileIdx |-> quantile_s[i][a]], Cardinality(QuantileIdx))

\* The first action whose mean over the quantile axis is the largest.
Greedy(quantile_s) ==
  CHOOSE a \in ActionIdx :
    /\ \A b \in ActionIdx : QSum(quantile_s, b) <= QSum(quantile_s, a)
    /\ \A b \in ActionIdx : b < a => QSum(quantile_s, b) < QSum(quantile_s, a)

\* C11: QRDQN next-state quantile target rule.  With double_q enabled the
\* next-state quantiles are the target network's quantiles at the single
\* action that maximizes the online network's mean over the quantile axis;
\* with double_q disabled they are, for each quantile index, the maximum over
\* actions of the target network's quantile, and the network is not evaluated
\* with the online parameters.
C11_NextQuantileRule ==
  kernel.fn = "next_quantile" =>
    /\ TRUE \in kernel.done =>
         /\ \A i \in QuantileIdx :
              kernel.out[TRUE].next_quantile[i] = kernel.target[i][Greedy(kernel.online)]
         /\ kernel.out[TRUE].applied = {"params", "params_target"}
    /\ FALSE \in kernel.done =>
         /\ \A i \in QuantileIdx :
              /\ \E a \in ActionIdx : kernel.out[FALSE].next_quantile[i] = kernel.target[i][a]
              /\ \A a \in ActionIdx : kernel.target[i][a] <= kernel.out[FALSE].next_quantile[i]
         /\ kernel.out[FALSE].applied = {"params_target"}

\* Both modes ran on outputs where the online and the target network prefer
\* different actions, and the disabled mode took its two quantiles from two
\* different actions.
C11_Witness ==
  /\ kernel.fn = "next_quantile" /\ kernel.done = BOOLEAN
  /\ Greedy(kernel.online) = 1 /\ Greedy(kernel.target) = 0
  /\ kernel.out[FALSE].next_quantile[1] = kernel.target[1][1]
  /\ kernel.out[FALSE].next_quantile[1] > kernel.target[1][0]
  /\ kernel.out[FALSE].next_quantile[2] = kernel.target[2][0]
  /\ kernel.out[FALSE].next_quantile[2] > kernel.target[2][1]
  /\ kernel.out[TRUE].next_quantile # kernel.out[FALSE].next_quantile

\* C12 as stated: whenever the online network's greedy action differs from
\* the target network's greedy action, the next-state quantiles computed with
\* double_q enabled differ from those computed with double_q disabled on the
\* same outputs.
C12_DisagreementChangesTarget ==
  (kernel.fn = "next_quantile" /\ kernel.done = BOOLEAN
     /\ Greedy(kernel.online) # Greedy(kernel.target)) =>
    kernel.out[TRUE].next_quantile # kernel.out[FALSE].next_quantile

\* C12 as amended: whenever the online network's greedy action differs from
\* the target network's greedy action and the target network's quantiles at
\* those two actions are not all equal, the next-state quantiles of the two
\* modes differ.
C12_DistinctQuantilesChangeTarget ==
  (kernel.fn = "next_quantile" /\ kernel.done = BOOLEAN
     /\ Greedy(kernel.online) # Greedy(kernel.target)
     /\ \E i \in QuantileIdx :
          kernel.target[i][Greedy(kernel.online)] # kernel.target[i][Greedy(kernel.target)]) =>
    kernel.out[TRUE].next_quantile # kernel.out[FALSE].next_quantile

\* The target network strictly prefers action 0 in every quantile, the online
\* network prefers action 1, and the two modes gave different quantiles.
C12_Witness ==
  /\ kernel.fn = "next_quantile" /\ kernel.done = BOOLEAN
  /\ Greedy(kernel.online) = 1
  /\ \A i \in QuantileIdx : kernel.target[i][0] > kernel.target[i][1]
  /\ kernel.out[TRUE].next_quantile = [i \in QuantileIdx |-> kernel.target[i][1]]
  /\ kernel.out[FALSE].next_quantile = [i \in QuantileIdx |-> kernel.target[i][0]]

(* ====================== properties of construction ====================== *)
\* The learning rates the optimizers of the instance were built with.
LearningRatesOf(self) ==
  {self[f].lr : f \in DOMAIN self \cap {"opt", "opt_actor", "opt_critic", "opt_alpha"}}

\* C13: invalid configuration is rejected at construction.  A QRDQN
\* constructor called with an unsupported loss kind, or a QRDQN, SAC or TD3
\* constructor called with a zero or negative learning rate, raises: no
\* instance with such a configuration exists.
C13_InvalidConfigurationRejected ==
  /\ algo # NoAlgo =>
       /\ \A lr \in LearningRatesOf(algo) : lr > 0
       /\ algo.name = "QRDQN" => algo.loss_type \in {"l2", "huber"}
  /\ (kernel.fn = "__init__" /\ pc # "new" /\ algo = NoAlgo) => pc = "raised"

(* ===================== properties of metrics logging ==================== *)
\* C14: metrics failures never abort training.  When the writer's add_scalar
\* fails during a QRDQN or TD3 update(), the update() call still completes
\* normally and the run goes on to the later updates.
C14_MetricsFailureNeverAborts ==
  writer.kind = "failing" => pc # "raised"

C16_OffIntervalTargetUntouched ==
  algo.name = "QRDQN" =>
    /\ trace = << >> => algo.params_target = init_params(0)
    /\ (trace # << >> /\ trace[1].fn = "load_params") =>
         algo.params_target = trace[1].params /\ algo.params = trace[1].params
    /\ (trace # << >> /\ trace[1].fn = "update") =>
         IF Pre.agent_step % algo.update_interval_target # 0
         THEN /\ algo.params_target = Pre.params_target
              /\ Calls({"_update_target"}) = << >>
              /\ algo.params # Pre.params
              /\ algo.opt_state = Pre.opt_state + 1
              /\ algo.learning_step = Pre.learning_step + 1
         ELSE algo.params_target = algo.params

\* An off-interval update has just run on a target that already lagged
\* behind the online parameters.
C16_Witness ==
  /\ algo.name = "QRDQN" /\ trace # << >> /\ trace[1].fn = "update"
  /\ Pre.agent_step % algo.update_interval_target # 0
  /\ Pre.params_target # Pre.params
  /\ Pre.learning_step >= 1
  /\ algo.params_target = Pre.params_target
  /\ algo.params # Pre.params

\* C17: a target tree equals its online tree at construction and after every
\* load_params, whatever updates came before; an update that then replaces
\* the online tree does not change the target tree with it.
C17_TargetEqualsOnlineAtInitAndLoad ==
  /\ algo.name = "QRDQN" =>
       /\ (trace = << >> \/ trace[1].fn = "load_params") =>
            algo.params_target = algo.params
       /\ (trace # << >> /\ trace[1].fn = "update"
             /\ Pre.params_target = Pre.params
             /\ Pre.agent_step % algo.update_interval_target # 0) =>
            algo.params_target = Pre.params /\ algo.params_target # algo.params
  /\ algo.name = "TD3" =>
       /\ (trace = << >> \/ trace[1].fn = "load_params") =>
            /\ algo.params_critic_target = algo.params_critic
            /\ algo.params_actor_target = algo.params_actor
       /\ (trace # << >> /\ trace[1].fn = "load_params") =>
            /\ algo.params_critic = trace[1].params_critic
            /\ algo.params_actor = trace[1].params_actor
       /\ (trace # << >> /\ trace[1].fn = "update"
             /\ Pre.params_critic_target = Pre.params_critic) =>
            /\ IsBlend(algo.params_critic_target, Pre.params_critic, algo.params_critic, algo.tau)
            /\ algo.tau < TauDen => algo.params_critic_target # algo.params_critic
       /\ (trace # << >> /\ trace[1].fn = "update"
             /\ Pre.params_actor_target = Pre.params_actor
             /\ algo.params_actor # Pre.params_actor) =>
            /\ IsBlend(algo.params_actor_target, Pre.params_actor, algo.params_actor, algo.tau)
            /\ algo.tau < TauDen => algo.params_actor_target # algo.params_actor

\* TD3 loaded a checkpoint after updates had moved both target trees away
\* from their online trees.
C17_Witness ==
  /\ algo.name = "TD3" /\ trace # << >> /\ trace[1].fn = "load_params"
  /\ Pre.learning_step >= 2
  /\ Pre.params_critic_target # Pre.params_critic
  /\ Pre.params_actor_target # Pre.params_actor
  /\ algo.params_critic_target = algo.params_critic
  /\ algo.params_actor_target = algo.params_actor

====
